---- MODULE Spec2Model ----
(***************************************************************************)
(* Central Fuel Plan (src/main.py): source loading with cache fallback,    *)
(* header normalisation and column resolution, date parsing, the row       *)
(* filter, and the report / dashboard emitters.                            *)
(*                                                                         *)
(* Text is modelled as a sequence of one-character strings, so trimming,   *)
(* case folding, separator removal, date formatting and date parsing are   *)
(* computed character by character.                                        *)
(***************************************************************************)
EXTENDS Integers, Sequences, FiniteSets, TLC

VARIABLES
    pc,              \* position of the run inside main()
    runs,            \* number of runs of the program started so far
    cache,           \* the file at cache_path: absent, unreadable, or a table
    lastFetched,     \* the table of the most recent successful remote fetch
    fetch,           \* outcome of this run's pd.read_csv(SHEET_URL)
    source,          \* which branch of load_data produced df
    raw,             \* the table load_data returned
    df,              \* the DataFrame main() currently holds
    binding,         \* the six *_col locals of clean_and_filter
    has_coordinates, \* second component of clean_and_filter's result
    error,           \* the exception that ended the run, or NoError
    today,           \* the value of datetime.today().date() in generate_reports
    fuel_today,      \* rows written to fuel_today.csv
    fuel_pending,    \* rows written to fuel_pending.csv
    data_json,       \* records written to data.json
    refiltered,      \* result of applying clean_and_filter to its own output
    ppc,             \* position of the date-parser harness
    pdate,           \* the calendar date that was formatted
    pfmt,            \* index of the pattern it was formatted with (0: raw input)
    pin,             \* the value handed to safe_parse_date
    pout             \* what safe_parse_date returned

vars == <<pc, runs, cache, lastFetched, fetch, source, raw, df, binding, has_coordinates,
          error, today, fuel_today, fuel_pending, data_json, refiltered,
          ppc, pdate, pfmt, pin, pout>>

pipeVars == <<pc, runs, cache, lastFetched, fetch, source, raw, df, binding, has_coordinates,
              error, today, fuel_today, fuel_pending, data_json, refiltered>>

parseVars == <<ppc, pdate, pfmt, pin, pout>>

----------------------------------------------------------------------------
(* Text helpers: str.strip, str.lower, str.upper, str.replace(x, "")       *)

UpperLetters ==
    <<"A","B","C","D","E","F","G","H","I","J","K","L","M",
      "N","O","P","Q","R","S","T","U","V","W","X","Y","Z">>

LowerLetters ==
    <<"a","b","c","d","e","f","g","h","i","j","k","l","m",
      "n","o","p","q","r","s","t","u","v","w","x","y","z">>

Digits == <<"0","1","2","3","4","5","6","7","8","9">>

IsSpace(c) == c \in {" ", "\t", "\n"}

IsDigit(c) == \E i \in 1..10 : Digits[i] = c

DigitVal(c) == (CHOOSE i \in 1..10 : Digits[i] = c) - 1

LowerChar(c) ==
    IF \E i \in 1..26 : UpperLetters[i] = c
    THEN LowerLetters[CHOOSE i \in 1..26 : UpperLetters[i] = c]
    ELSE c

UpperChar(c) ==
    IF \E i \in 1..26 : LowerLetters[i] = c
    THEN UpperLetters[CHOOSE i \in 1..26 : LowerLetters[i] = c]
    ELSE c

Lower(s) == [i \in 1..Len(s) |-> LowerChar(s[i])]

Upper(s) == [i \in 1..Len(s) |-> UpperChar(s[i])]

RECURSIVE LStrip(_)
LStrip(s) ==
    IF s # <<>> /\ IsSpace(Head(s)) THEN LStrip(Tail(s)) ELSE s

RECURSIVE RStrip(_)
RStrip(s) ==
    IF s # <<>> /\ IsSpace(s[Len(s)]) THEN RStrip(SubSeq(s, 1, Len(s) - 1)) ELSE s

Strip(s) == RStrip(LStrip(s))

Remove(s, ch) == SelectSeq(s, LAMBDA c : c # ch)

----------------------------------------------------------------------------
(* Cell values.  Every cell is a record of one shape, so that cells of     *)
(* different kinds can be compared: a string, a float NaN (an empty CSV    *)
(* cell), a number, a Timestamp, or NaT.                                   *)

NoDate == <<0, 0, 0>>

Str(s) == [k |-> "str", s |-> s, d |-> NoDate]
Num(s) == [k |-> "num", s |-> s, d |-> NoDate]
Ts(d) == [k |-> "ts", s |-> <<>>, d |-> d]
NaN == [k |-> "nan", s |-> <<>>, d |-> NoDate]
NaT == [k |-> "nat", s |-> <<>>, d |-> NoDate]

IsNA(c) == c.k \in {"nan", "nat"}

----------------------------------------------------------------------------
(* Calendar                                                                *)

IsLeap(y) == (y % 4 = 0 /\ y % 100 # 0) \/ y % 400 = 0

DaysInMonth(y, m) ==
    IF m = 2 THEN (IF IsLeap(y) THEN 29 ELSE 28)
    ELSE IF m \in {4, 6, 9, 11} THEN 30 ELSE 31

ValidDate(y, m, d) ==
    /\ y \in 1..9999
    /\ m \in 1..12
    /\ d \in 1..DaysInMonth(y, m)

DateLT(a, b) ==
    \/ a[1] < b[1]
    \/ a[1] = b[1] /\ a[2] < b[2]
    \/ a[1] = b[1] /\ a[2] = b[2] /\ a[3] < b[3]

MonthAbbr ==
    << <<"J","a","n">>, <<"F","e","b">>, <<"M","a","r">>, <<"A","p","r">>,
       <<"M","a","y">>, <<"J","u","n">>, <<"J","u","l">>, <<"A","u","g">>,
       <<"S","e","p">>, <<"O","c","t">>, <<"N","o","v">>, <<"D","e","c">> >>

----------------------------------------------------------------------------
(* datetime.strftime / datetime.strptime for the seven patterns of         *)
(* safe_parse_date.  A pattern is its separator and its three directives.  *)

formats ==
    << [sep |-> "-", dirs |-> <<"Y", "m", "d">>],    \* %Y-%m-%d
       [sep |-> "/", dirs |-> <<"d", "m", "Y">>],    \* %d/%m/%Y
       [sep |-> "-", dirs |-> <<"d", "m", "Y">>],    \* %d-%m-%Y
       [sep |-> "/", dirs |-> <<"m", "d", "Y">>],    \* %m/%d/%Y
       [sep |-> "/", dirs |-> <<"d", "m", "y">>],    \* %d/%m/%y
       [sep |-> " ", dirs |-> <<"b", "d", "Y">>],    \* %b %d %Y
       [sep |-> " ", dirs |-> <<"d", "b", "Y">>] >>  \* %d %b %Y

TwoDigits(n) == <<Digits[((n \div 10) % 10) + 1], Digits[(n % 10) + 1]>>

FourDigits(n) == TwoDigits(n \div 100) \o TwoDigits(n % 100)

FormatField(dir, date) ==
    CASE dir = "Y" -> FourDigits(date[1])
      [] dir = "y" -> TwoDigits(date[1] % 100)
      [] dir = "m" -> TwoDigits(date[2])
      [] dir = "d" -> TwoDigits(date[3])
      [] dir = "b" -> MonthAbbr[date[2]]

Strftime(date, fmt) ==
    FormatField(fmt.dirs[1], date) \o <<fmt.sep>> \o
    FormatField(fmt.dirs[2], date) \o <<fmt.sep>> \o
    FormatField(fmt.dirs[3], date)

RECURSIVE NumVal(_)
NumVal(f) ==
    IF f = <<>> THEN 0 ELSE 10 * NumVal(SubSeq(f, 1, Len(f) - 1)) + DigitVal(f[Len(f)])

AllDigits(f) == f # <<>> /\ \A i \in 1..Len(f) : IsDigit(f[i])

\* A run of whitespace in the text matches one blank of the pattern (\s+).
RECURSIVE SquashSpaces(_)
SquashSpaces(s) ==
    IF s = <<>> THEN <<>>
    ELSE IF IsSpace(Head(s))
         THEN <<" ">> \o SquashSpaces(LStrip(s))
         ELSE <<Head(s)>> \o SquashSpaces(Tail(s))

RECURSIVE SplitFrom(_, _, _, _, _)
SplitFrom(s, sep, i, cur, acc) ==
    IF i > Len(s) THEN Append(acc, cur)
    ELSE IF s[i] = sep THEN SplitFrom(s, sep, i + 1, <<>>, Append(acc, cur))
    ELSE SplitFrom(s, sep, i + 1, Append(cur, s[i]), acc)

Fields(s, sep) ==
    IF sep = " " THEN SplitFrom(SquashSpaces(s), sep, 1, <<>>, <<>>)
    ELSE SplitFrom(s, sep, 1, <<>>, <<>>)

\* The value a directive reads from one field, or -1 when its regular
\* expression does not match the whole field.
FieldVal(dir, f) ==
    CASE dir = "Y" ->
            IF Len(f) = 4 /\ AllDigits(f) THEN NumVal(f) ELSE -1
      [] dir = "y" ->
            IF Len(f) = 2 /\ AllDigits(f)
            THEN (IF NumVal(f) >= 69 THEN 1900 + NumVal(f) ELSE 2000 + NumVal(f))
            ELSE -1
      [] dir = "m" ->
            IF AllDigits(f) /\ Len(f) <= 2 /\ NumVal(f) \in 1..12
               /\ (Len(f) = 1 => NumVal(f) <= 9)
            THEN NumVal(f) ELSE -1
      [] dir = "d" ->
            IF AllDigits(f) /\ Len(f) <= 2 /\ NumVal(f) \in 1..31
            THEN NumVal(f)
            ELSE IF Len(f) = 2 /\ f[1] = " " /\ IsDigit(f[2]) /\ f[2] # "0"
                 THEN DigitVal(f[2]) ELSE -1
      [] dir = "b" ->
            IF \E i \in 1..12 : Lower(MonthAbbr[i]) = Lower(f)
            THEN CHOOSE i \in 1..12 : Lower(MonthAbbr[i]) = Lower(f)
            ELSE -1

DirIndex(fmt, dir) == CHOOSE i \in 1..3 : fmt.dirs[i] = dir

\* strptime: the parsed calendar date, or NoDate for ValueError.
Strptime(s, fmt) ==
    LET fs == Fields(s, fmt.sep)
    IN  IF Len(fs) # 3 THEN NoDate
        ELSE
          LET v == [i \in 1..3 |-> FieldVal(fmt.dirs[i], fs[i])]
              yd == IF \E i \in 1..3 : fmt.dirs[i] = "Y" THEN "Y" ELSE "y"
              md == IF \E i \in 1..3 : fmt.dirs[i] = "m" THEN "m" ELSE "b"
              y == v[DirIndex(fmt, yd)]
              m == v[DirIndex(fmt, md)]
              d == v[DirIndex(fmt, "d")]
          IN  IF (\A i \in 1..3 : v[i] # -1) /\ ValidDate(y, m, d)
              THEN <<y, m, d>> ELSE NoDate

----------------------------------------------------------------------------
(* safe_parse_date                                                         *)

None == NoDate

Returned(d) == [raised |-> FALSE, date |-> d]

Raised == [raised |-> TRUE, date |-> NoDate]

\* The loop over the patterns: the first one that parses wins, a ValueError
\* moves on to the next pattern.
\* The loop without its early return: the last pattern that parses wins.
RECURSIVE TryFormats_last(_, _)
TryFormats_last(value, i) ==
    IF i > Len(formats) THEN Returned(None)
    ELSE LET rest == TryFormats_last(value, i + 1)
         IN  IF rest.date # None THEN rest
             ELSE Returned(Strptime(value, formats[i]))

RECURSIVE TryFormats(_, _)
TryFormats(value, i) ==
    IF i > Len(formats) THEN Returned(None)
    ELSE IF Strptime(value, formats[i]) # NoDate
         THEN Returned(Strptime(value, formats[i]))
         ELSE TryFormats(value, i + 1)

safe_parse_date_unguarded(value) ==
    IF value.k # "str" THEN Raised
    ELSE IF Strip(value.s) = <<>> THEN Returned(None)
    ELSE TryFormats(Strip(value.s), 1)

safe_parse_date(value) ==
    IF value.k # "str" THEN Returned(None)
    ELSE IF Strip(value.s) = <<>> THEN Returned(None)
    ELSE TryFormats(Strip(value.s), 1)

----------------------------------------------------------------------------
(* DataFrames.  A table is its header row and its rows; a row is a         *)
(* sequence of cells aligned with the header row.                          *)

Table(columns, rows) == [columns |-> columns, rows |-> rows]

NoTable == Table(<<>>, <<>>)

Count(columns, name) == Cardinality({i \in 1..Len(columns) : columns[i] = name})

Idx(columns, name) == CHOOSE i \in 1..Len(columns) : columns[i] = name

\* Series.astype(str) of one cell
AsStr(c) ==
    CASE c.k = "str" -> c.s
      [] c.k = "num" -> c.s
      [] c.k = "nan" -> <<"n","a","n">>
      [] c.k = "nat" -> <<"N","a","T">>
      [] c.k = "ts" -> Strftime(c.d, formats[1])

\* pd.to_datetime(..., errors="coerce") of one cell, for the cell values the
\* feeds below contain: a Timestamp is kept, a YYYY-MM-DD string is parsed,
\* an empty cell or a string that is no date becomes NaT.
ToDatetime(c) ==
    CASE c.k = "ts" -> c
      [] c.k = "str" ->
            IF Len(c.s) = 10 /\ Strptime(c.s, formats[1]) # NoDate
            THEN Ts(Strptime(c.s, formats[1])) ELSE NaT
      [] OTHER -> NaT

----------------------------------------------------------------------------
(* Column detection helpers                                                *)

site_candidates ==
    { <<"b">>,
      <<"s","i","t","e","n","a","m","e">>,
      <<"s","i","t","e">>,
      <<"c","o","w","i","d">>,
      <<"n","a","m","e">> }

region_candidates ==
    { <<"d">>,
      <<"r","e","g","i","o","n">>,
      <<"c","l","u","s","t","e","r">> }

status_candidates ==
    { <<"j">>,
      <<"c","o","w","s","t","a","t","u","s">>,
      <<"s","t","a","t","u","s">> }

date_candidates ==
    { <<"a","j">>,
      <<"n","e","x","t","f","u","e","l","i","n","g","p","l","a","n">>,
      <<"n","e","x","t","f","u","e","l","d","a","t","e">> }

lat_candidates ==
    { <<"l">>,
      <<"l","a","t">>,
      <<"l","a","t","i","t","u","d","e">> }

lng_candidates ==
    { <<"m">>,
      <<"l","n","g">>,
      <<"l","o","n">>,
      <<"l","o","n","g","i","t","u","d","e">> }

NoColumn == <<"None">>

_normalize_columns(columns) ==
    [i \in 1..Len(columns) |->
        Lower(Remove(Remove(Remove(Strip(columns[i]), " "), "_"), "-"))]

_pick_column_last(columns, candidates) ==
    IF \E i \in 1..Len(columns) : columns[i] \in candidates
    THEN columns[CHOOSE i \in 1..Len(columns) :
                    /\ columns[i] \in candidates
                    /\ \A j \in (i + 1)..Len(columns) : columns[j] \notin candidates]
    ELSE NoColumn

_pick_column(columns, candidates) ==
    IF \E i \in 1..Len(columns) : columns[i] \in candidates
    THEN columns[CHOOSE i \in 1..Len(columns) :
                    /\ columns[i] \in candidates
                    /\ \A j \in 1..(i - 1) : columns[j] \notin candidates]
    ELSE NoColumn

Roles == {"site", "region", "status", "date", "lat", "lng"}

Candidates(role) ==
    CASE role = "site" -> site_candidates
      [] role = "region" -> region_candidates
      [] role = "status" -> status_candidates
      [] role = "date" -> date_candidates
      [] role = "lat" -> lat_candidates
      [] role = "lng" -> lng_candidates

NoBinding == [r \in Roles |-> NoColumn]

\* site_col, region_col, status_col, date_col, lat_col, lng_col
Resolve(columns) == [r \in Roles |-> _pick_column(columns, Candidates(r))]

----------------------------------------------------------------------------
(* clean_and_filter                                                        *)

central == <<"c","e","n","t","r","a","l">>

allowed_status ==
    { <<"O","N","-","A","I","R">>,
      <<"I","N"," ","P","R","O","G","R","E","S","S">> }

SiteName == <<"S","i","t","e","N","a","m","e">>

Region == <<"R","e","g","i","o","n">>

COWStatus == <<"C","O","W","S","t","a","t","u","s">>

NextFuelingPlan == <<"N","e","x","t","F","u","e","l","i","n","g","P","l","a","n">>

CityName == <<"C","i","t","y","N","a","m","e">>

lat == <<"l","a","t">>

lng == <<"l","n","g">>

CleanColumns_city(has) ==
    <<SiteName, CityName, COWStatus, NextFuelingPlan>> \o
    (IF has THEN <<lat, lng>> ELSE <<>>)

\* The header row of df_clean (lines 124-136)
CleanColumns(has) ==
    <<SiteName, Region, COWStatus, NextFuelingPlan>> \o
    (IF has THEN <<lat, lng>> ELSE <<>>)

NoError == "None"

\* The exception clean_and_filter raises for a header row, in statement
\* order: df[None] is a KeyError; a label carried by two columns selects a
\* DataFrame, which has no .str accessor (lines 109-111), which
\* pd.to_datetime cannot assemble (line 120) and which cannot be assigned
\* to one column (lines 135-136).
CleanRaises(cols, b) ==
    IF b.site = NoColumn THEN "KeyError"
    ELSE IF Count(cols, b.site) > 1 THEN "AttributeError"
    ELSE IF b.region = NoColumn THEN "KeyError"
    ELSE IF Count(cols, b.region) > 1 THEN "AttributeError"
    ELSE IF b.status = NoColumn THEN "KeyError"
    ELSE IF Count(cols, b.status) > 1 THEN "AttributeError"
    ELSE IF b.date = NoColumn THEN "KeyError"
    ELSE IF Count(cols, b.date) > 1 THEN "ValueError"
    ELSE IF b.lat # NoColumn /\ b.lng # NoColumn
            /\ (Count(cols, b.lat) > 1 \/ Count(cols, b.lng) > 1) THEN "ValueError"
    ELSE NoError

clean_and_filter(t) ==
    LET cols == _normalize_columns(t.columns)
        b == Resolve(cols)
        exc == CleanRaises(cols, b)
        has == b.lat # NoColumn /\ b.lng # NoColumn
        site(r) == Str(Strip(AsStr(r[Idx(cols, b.site)])))
        region(r) == Str(Lower(Strip(AsStr(r[Idx(cols, b.region)]))))
        status(r) == Str(Upper(Strip(AsStr(r[Idx(cols, b.status)]))))
        date(r) == ToDatetime(r[Idx(cols, b.date)])
        keep(r) ==
            /\ region(r).s = central
            /\ status(r).s \in allowed_status
            /\ ~IsNA(date(r))
        outRow(r) ==
            <<site(r), region(r), status(r), date(r)>> \o
            (IF has THEN <<r[Idx(cols, b.lat)], r[Idx(cols, b.lng)]>> ELSE <<>>)
        kept == SelectSeq(t.rows, keep)
    IN  IF exc # NoError
        THEN [raised |-> exc, binding |-> b, df |-> NoTable,
              has_coordinates |-> FALSE]
        ELSE [raised |-> NoError, binding |-> b,
              df |-> Table(CleanColumns(has),
                           [i \in 1..Len(kept) |-> outRow(kept[i])]),
              has_coordinates |-> has]

----------------------------------------------------------------------------
(* load_data                                                               *)

\* The file at cache_path: missing, present but not parseable as CSV (an
\* empty file makes pd.read_csv raise EmptyDataError), or holding a table.
CacheFile(t) == [exists |-> TRUE, readable |-> TRUE, table |-> t]

CacheAbsent == [exists |-> FALSE, readable |-> FALSE, table |-> NoTable]

CacheUnreadable == [exists |-> TRUE, readable |-> FALSE, table |-> NoTable]

\* The outcome of pd.read_csv(SHEET_URL)
Fetched(t) == [ok |-> TRUE, table |-> t]

FetchFailed == [ok |-> FALSE, table |-> NoTable]

load_data(remote, cacheFile) ==
    IF remote.ok
    THEN [raised |-> NoError, df |-> remote.table, source |-> "remote"]
    ELSE IF ~cacheFile.exists
    THEN [raised |-> "FileNotFoundError", df |-> NoTable, source |-> "none"]
    ELSE IF ~cacheFile.readable
    THEN [raised |-> "EmptyDataError", df |-> NoTable, source |-> "none"]
    ELSE [raised |-> NoError, df |-> cacheFile.table, source |-> "cache"]

----------------------------------------------------------------------------
(* generate_reports, generate_dashboard_data                               *)

File(rows) == [exists |-> TRUE, rows |-> rows]

NoFile == [exists |-> FALSE, rows |-> <<>>]

PlanOf(t, r) == r[Idx(t.columns, NextFuelingPlan)]

PendingRows_le(t, day) ==
    SelectSeq(t.rows, LAMBDA r : PlanOf(t, r).k = "ts" /\ ~DateLT(day, PlanOf(t, r).d))

\* df[df["NextFuelingPlan"] == today]
TodayRows(t, day) ==
    SelectSeq(t.rows, LAMBDA r : PlanOf(t, r) = Ts(day))

\* df[df["NextFuelingPlan"] < today]
PendingRows(t, day) ==
    SelectSeq(t.rows, LAMBDA r : PlanOf(t, r).k = "ts" /\ DateLT(PlanOf(t, r).d, day))

DashboardColumns == <<SiteName, CityName, NextFuelingPlan, lat, lng>>

generate_dashboard_data(t, include_map, old) ==
    IF ~include_map THEN [raised |-> NoError, file |-> old]
    ELSE
      LET geo == SelectSeq(t.rows, LAMBDA r :
                    /\ ~IsNA(r[Idx(t.columns, lat)])
                    /\ ~IsNA(r[Idx(t.columns, lng)]))
          cell(r, name) ==
              IF name = NextFuelingPlan
              THEN Str(Strftime(PlanOf(t, r).d, formats[1]))
              ELSE r[Idx(t.columns, name)]
      IN  IF \E j \in 1..Len(DashboardColumns) :
                Count(t.columns, DashboardColumns[j]) = 0
          THEN [raised |-> "KeyError", file |-> old]
          ELSE [raised |-> NoError,
                file |-> File([i \in 1..Len(geo) |->
                            [j \in 1..Len(DashboardColumns) |->
                                cell(geo[i], DashboardColumns[j])]])]


----------------------------------------------------------------------------
(* The feeds the runs are given.  A header row pairs each raw header with  *)
(* the field of the sheet row that fills its column; a sheet row gives one *)
(* cell per field.  pd.read_csv turns an empty cell, and the spreadsheet   *)
(* error text #N/A, into NaN; any other text stays a string.               *)

HeadersPlain ==
    << [name |-> <<"S","i","t","e"," ","N","a","m","e">>, field |-> "site"],
       [name |-> <<"R","e","g","i","o","n">>, field |-> "region"],
       [name |-> <<"C","O","W"," ","S","t","a","t","u","s">>, field |-> "status"],
       [name |-> <<"N","e","x","t"," ","F","u","e","l","i","n","g"," ","P","l","a","n">>, field |-> "date"],
       [name |-> <<"L","a","t">>, field |-> "lat"],
       [name |-> <<"L","n","g">>, field |-> "lng"] >>

HeadersMessy ==
    << [name |-> <<" ","s","i","t","e","_","n","a","m","e"," ">>, field |-> "site"],
       [name |-> <<"N","o","t","e","s">>, field |-> "other"],
       [name |-> <<"R","E","G","I","O","N">>, field |-> "region"],
       [name |-> <<"c","o","w","-","s","t","a","t","u","s">>, field |-> "status"],
       [name |-> <<"N","e","x","t","_","F","u","e","l","-","D","a","t","e">>, field |-> "date"],
       [name |-> <<"L","O","N","G","I","T","U","D","E">>, field |-> "lng"],
       [name |-> <<"L","a","t","i","t","u","d","e">>, field |-> "lat"] >>

HeadersTwoSites ==
    << [name |-> <<"C","O","W"," ","I","D">>, field |-> "other"],
       [name |-> <<"S","i","t","e","N","a","m","e">>, field |-> "site"],
       [name |-> <<"C","l","u","s","t","e","r">>, field |-> "region"],
       [name |-> <<"S","t","a","t","u","s">>, field |-> "status"],
       [name |-> <<"A","J">>, field |-> "date"] >>

HeadersNoLat ==
    << [name |-> <<"S","i","t","e">>, field |-> "site"],
       [name |-> <<"R","e","g","i","o","n">>, field |-> "region"],
       [name |-> <<"S","t","a","t","u","s">>, field |-> "status"],
       [name |-> <<"N","e","x","t","F","u","e","l","D","a","t","e">>, field |-> "date"],
       [name |-> <<"L","o","n">>, field |-> "lng"] >>

HeadersNoSite ==
    << [name |-> <<"R","e","g","i","o","n">>, field |-> "region"],
       [name |-> <<"S","t","a","t","u","s">>, field |-> "status"],
       [name |-> <<"N","e","x","t"," ","F","u","e","l","i","n","g"," ","P","l","a","n">>, field |-> "date"],
       [name |-> <<"L","a","t">>, field |-> "lat"],
       [name |-> <<"L","n","g">>, field |-> "lng"] >>

HeadersNoRegion ==
    << [name |-> <<"S","i","t","e">>, field |-> "site"],
       [name |-> <<"C","i","t","y">>, field |-> "other"],
       [name |-> <<"S","t","a","t","u","s">>, field |-> "status"],
       [name |-> <<"N","e","x","t"," ","F","u","e","l","i","n","g"," ","P","l","a","n">>, field |-> "date"] >>

HeadersNoStatus ==
    << [name |-> <<"S","i","t","e">>, field |-> "site"],
       [name |-> <<"R","e","g","i","o","n">>, field |-> "region"],
       [name |-> <<"N","e","x","t"," ","F","u","e","l","i","n","g"," ","P","l","a","n">>, field |-> "date"],
       [name |-> <<"L","a","t">>, field |-> "lat"],
       [name |-> <<"L","n","g">>, field |-> "lng"] >>

HeadersNoDate ==
    << [name |-> <<"S","i","t","e">>, field |-> "site"],
       [name |-> <<"R","e","g","i","o","n">>, field |-> "region"],
       [name |-> <<"S","t","a","t","u","s">>, field |-> "status"],
       [name |-> <<"L","a","t">>, field |-> "lat"],
       [name |-> <<"L","n","g">>, field |-> "lng"] >>

HeadersDuplicate ==
    << [name |-> <<"S","i","t","e"," ","N","a","m","e">>, field |-> "site"],
       [name |-> <<"s","i","t","e","_","n","a","m","e">>, field |-> "other"],
       [name |-> <<"R","e","g","i","o","n">>, field |-> "region"],
       [name |-> <<"S","t","a","t","u","s">>, field |-> "status"],
       [name |-> <<"A","J">>, field |-> "date"] >>

HeaderRows ==
    {HeadersPlain,
     HeadersMessy,
     HeadersTwoSites,
     HeadersNoLat,
     HeadersNoSite,
     HeadersNoRegion,
     HeadersNoStatus,
     HeadersNoDate,
     HeadersDuplicate}

RowDueA ==
    [site |-> Str(<<" ","C","0","0","1"," ">>),
     region |-> Str(<<" "," ","C","E","N","T","R","A","L"," ">>),
     status |-> Str(<<"o","n","-","a","i","r">>),
     date |-> Str(<<"2","0","2","5","-","0","3","-","1","5">>),
     lat |-> Num(<<"2","4",".","7">>),
     lng |-> Num(<<"4","6",".","7">>),
     other |-> Str(<<"x">>)]

RowDueB ==
    [site |-> Str(<<"C","0","0","2">>),
     region |-> Str(<<"C","e","n","t","r","a","l">>),
     status |-> Str(<<" ","I","n"," ","P","r","o","g","r","e","s","s"," ">>),
     date |-> Str(<<"2","0","2","5","-","0","3","-","1","6">>),
     lat |-> NaN,
     lng |-> Num(<<"4","6",".","6">>),
     other |-> Str(<<"x">>)]

RowDueC ==
    [site |-> Str(<<"C","0","0","3">>),
     region |-> Str(<<"c","e","n","t","r","a","l">>),
     status |-> Str(<<"O","N","-","A","I","R">>),
     date |-> Str(<<"2","0","2","5","-","0","3","-","1","7">>),
     lat |-> Num(<<"2","4",".","6">>),
     lng |-> Num(<<"4","6",".","5">>),
     other |-> Str(<<"x">>)]

RowWest ==
    [site |-> Str(<<"W","0","0","1">>),
     region |-> Str(<<"W","e","s","t">>),
     status |-> Str(<<"O","N","-","A","I","R">>),
     date |-> Str(<<"2","0","2","5","-","0","3","-","1","5">>),
     lat |-> Num(<<"2","1",".","5">>),
     lng |-> Num(<<"3","9",".","2">>),
     other |-> Str(<<"x">>)]

RowOffAir ==
    [site |-> Str(<<"C","0","0","4">>),
     region |-> Str(<<"c","e","n","t","r","a","l">>),
     status |-> Str(<<"O","F","F","-","A","I","R">>),
     date |-> Str(<<"2","0","2","5","-","0","3","-","1","6">>),
     lat |-> Num(<<"2","4",".","5">>),
     lng |-> NaN,
     other |-> Str(<<"x">>)]

RowBadDate ==
    [site |-> Str(<<"C","0","0","5">>),
     region |-> Str(<<"C","E","N","T","R","A","L">>),
     status |-> Str(<<"O","n","-","A","i","r">>),
     date |-> Str(<<"T","B","D">>),
     lat |-> Num(<<"2","4",".","4">>),
     lng |-> Num(<<"4","6",".","4">>),
     other |-> Str(<<"x">>)]

RowBlank ==
    [site |-> NaN,
     region |-> Str(<<"c","e","n","t","r","a","l"," ">>),
     status |-> Str(<<"i","n"," ","p","r","o","g","r","e","s","s">>),
     date |-> NaN,
     lat |-> NaN,
     lng |-> NaN,
     other |-> Str(<<"x">>)]

SheetRows ==
    {RowDueA, RowDueB, RowDueC, RowWest, RowOffAir, RowBadDate, RowBlank}

MaxRows == 2

MaxRuns == 3

RECURSIVE SeqsUpTo(_, _)
SeqsUpTo(S, n) ==
    IF n = 0 THEN {<<>>}
    ELSE SeqsUpTo(S, n - 1) \cup
         {Append(s, x) : s \in {q \in SeqsUpTo(S, n - 1) : Len(q) = n - 1}, x \in S}

\* The table pd.read_csv builds from a header row and sheet rows
Sheet(h, rs) ==
    Table([i \in 1..Len(h) |-> h[i].name],
          [k \in 1..Len(rs) |-> [i \in 1..Len(h) |-> rs[k][h[i].field]]])

Tables == {Sheet(h, rs) : h \in HeaderRows, rs \in SeqsUpTo(SheetRows, MaxRows)}

CachedTables ==
    {Sheet(HeadersPlain, <<RowDueA>>), Sheet(HeadersNoLat, <<RowDueB, RowWest>>)}

SmallTables ==
    CachedTables \cup {Sheet(HeadersPlain, <<RowDueC>>), Sheet(HeadersMessy, <<>>)}

CacheStates == {CacheAbsent, CacheUnreadable} \cup {CacheFile(t) : t \in CachedTables}

TodayPool == {<<2025, 3, 15>>, <<2025, 3, 16>>, <<2025, 3, 17>>}

----------------------------------------------------------------------------
(* Harness for safe_parse_date: a calendar date is formatted with one of   *)
(* the patterns, or a raw cell value is taken, and the parser is applied.  *)

Years == {1968, 1969, 2024, 2025, 2068, 2069}

Dates == {x \in Years \X (1..12) \X (1..31) : ValidDate(x[1], x[2], x[3])}

Sentinels ==
    { <<"#","N","/","A">>,
      <<"#","D","I","V","/","0","!">>,
      <<"#","V","A","L","U","E","!">> }

RawInputs ==
    {NaN, NaT, Num(<<"4","5">>), Ts(<<2025, 3, 4>>)} \cup
    {Str(s) : s \in Sentinels} \cup
    { Str(<<>>),
      Str(<<" ">>),
      Str(<<" ", "\t", " ">>),
      Str(<<" ","#","N","/","A"," ">>),
      Str(<<"T","B","D">>),
      Str(<<"2","0","2","5","0","3","0","4">>),
      Str(<<" ","2","0","2","5","-","0","3","-","0","4","\t">>),
      Str(<<"2","0","2","5","-","3","-","4">>),
      Str(<<"2","0","2","5","-","0","3","-","0","4","x">>),
      Str(<<"2","0","2","5","-","0","3","-","0","0">>),
      Str(<<"2","0","2","5","-","1","3","-","0","1">>),
      Str(<<"0","0","0","0","-","0","1","-","0","1">>),
      Str(<<"2","9","/","0","2","/","2","0","2","5">>),
      Str(<<"2","9","/","0","2","/","2","0","2","4">>),
      Str(<<"4","/","3","/","2","0","2","5">>),
      Str(<<"0","0","4","/","0","3","/","2","0","2","5">>),
      Str(<<"0","4","/","0","3","/","2","0","2","5","5">>),
      Str(<<"0","4","/","1","3","/","2","0","2","5">>),
      Str(<<"0","4","/","/","2","0","2","5">>),
      Str(<<"m","a","r"," "," ","4"," ","2","0","2","5">>),
      Str(<<"0","4"," ","M","A","R"," ","2","0","2","5">>),
      Str(<<"0","4"," ","M","a","r","c","h"," ","2","0","2","5">>) }

ParseInit ==
    /\ ppc = "start"
    /\ pdate = NoDate
    /\ pfmt = 0
    /\ pin = NaN
    /\ pout = Returned(None)

FormatDate ==
    /\ ppc = "start"
    /\ \E d \in Dates, f \in 1..Len(formats) :
          /\ pdate' = d
          /\ pfmt' = f
          /\ pin' = Str(Strftime(d, formats[f]))
    /\ ppc' = "input"
    /\ pout' = pout
    /\ UNCHANGED pipeVars

RawInput ==
    /\ ppc = "start"
    /\ \E v \in RawInputs : pin' = v
    /\ pdate' = NoDate
    /\ pfmt' = 0
    /\ ppc' = "input"
    /\ pout' = pout
    /\ UNCHANGED pipeVars

ParseDate ==
    /\ ppc = "input"
    /\ pout' = safe_parse_date(pin)
    /\ ppc' = "parsed"
    /\ UNCHANGED <<pdate, pfmt, pin>>
    /\ UNCHANGED pipeVars

----------------------------------------------------------------------------
(* main(): load_data, clean_and_filter, generate_reports,                  *)
(* generate_dashboard_data, one after the other; an exception ends the run *)

NoResult ==
    [raised |-> NoError, binding |-> NoBinding, df |-> NoTable,
     has_coordinates |-> FALSE]

PipeStart ==
    /\ pc = "start"
    /\ runs = 1
    /\ lastFetched = FetchFailed
    /\ fetch = FetchFailed
    /\ source = "none"
    /\ raw = NoTable
    /\ df = NoTable
    /\ binding = NoBinding
    /\ has_coordinates = FALSE
    /\ error = NoError
    /\ today = NoDate
    /\ fuel_today = NoFile
    /\ fuel_pending = NoFile
    /\ data_json = NoFile
    /\ refiltered = NoResult

Init ==
    /\ cache \in CacheStates
    /\ PipeStart
    /\ ParseInit

\* df = load_data(), the sheet answering with one of `feeds` or failing.
\* load_data never writes the file at cache_path.
LoadFrom(feeds) ==
    /\ pc = "start"
    /\ \E remote \in {FetchFailed} \cup {Fetched(t) : t \in feeds} :
          LET r == load_data(remote, cache)
          IN  /\ fetch' = remote
              /\ lastFetched' = IF remote.ok THEN remote ELSE lastFetched
              /\ source' = r.source
              /\ raw' = r.df
              /\ df' = r.df
              /\ error' = r.raised
              /\ pc' = IF r.raised = NoError THEN "loaded" ELSE "load_failed"
    /\ UNCHANGED <<runs, cache, binding, has_coordinates, today, fuel_today,
                   fuel_pending, data_json, refiltered>>
    /\ UNCHANGED parseVars

LoadData == LoadFrom(Tables)

\* df, has_coordinates = clean_and_filter(df)
CleanAndFilter ==
    /\ pc = "loaded"
    /\ LET r == clean_and_filter(df)
       IN  /\ binding' = r.binding
           /\ error' = r.raised
           /\ df' = IF r.raised = NoError THEN r.df ELSE df
           /\ has_coordinates' = r.has_coordinates
           /\ pc' = IF r.raised = NoError THEN "cleaned" ELSE "clean_failed"
    /\ UNCHANGED <<runs, cache, lastFetched, fetch, source, raw, today,
                   fuel_today, fuel_pending, data_json, refiltered>>
    /\ UNCHANGED parseVars

\* generate_reports(df)
GenerateReports ==
    /\ pc = "cleaned"
    /\ \E day \in TodayPool :
          /\ today' = day
          /\ fuel_today' = File(TodayRows(df, day))
          /\ fuel_pending' = File(PendingRows(df, day))
    /\ pc' = "reported"
    /\ UNCHANGED <<runs, cache, lastFetched, fetch, source, raw, df, binding,
                   has_coordinates, error, data_json, refiltered>>
    /\ UNCHANGED parseVars

\* generate_dashboard_data(df, include_map=has_coordinates)
GenerateDashboardData ==
    /\ pc = "reported"
    /\ LET r == generate_dashboard_data(df, has_coordinates, data_json)
       IN  /\ data_json' = r.file
           /\ error' = r.raised
           /\ pc' = IF r.raised = NoError THEN "done" ELSE "dashboard_failed"
    /\ UNCHANGED <<runs, cache, lastFetched, fetch, source, raw, df, binding,
                   has_coordinates, today, fuel_today, fuel_pending, refiltered>>
    /\ UNCHANGED parseVars

Next ==
    \/ LoadData
    \/ CleanAndFilter
    \/ GenerateReports
    \/ GenerateDashboardData

Spec == Init /\ [][Next]_vars

----------------------------------------------------------------------------
(* Successive runs of load_data against the same cache path                *)

LoadRun == LoadFrom(SmallTables)

NextRun ==
    /\ pc \in {"loaded", "load_failed"}
    /\ runs < MaxRuns
    /\ runs' = runs + 1
    /\ pc' = "start"
    /\ fetch' = FetchFailed
    /\ source' = "none"
    /\ raw' = NoTable
    /\ df' = NoTable
    /\ error' = NoError
    /\ UNCHANGED <<cache, lastFetched, binding, has_coordinates, today,
                   fuel_today, fuel_pending, data_json, refiltered>>
    /\ UNCHANGED parseVars

NextLoad == LoadRun \/ NextRun

SpecLoad == Init /\ [][NextLoad]_vars

----------------------------------------------------------------------------
(* clean_and_filter applied to a table, and then to its own result         *)

InitFilter ==
    /\ pc = "loaded"
    /\ runs = 1
    /\ cache = CacheAbsent
    /\ raw \in Tables
    /\ df = raw
    /\ fetch = Fetched(raw)
    /\ lastFetched = fetch
    /\ source = "remote"
    /\ binding = NoBinding
    /\ has_coordinates = FALSE
    /\ error = NoError
    /\ today = NoDate
    /\ fuel_today = NoFile
    /\ fuel_pending = NoFile
    /\ data_json = NoFile
    /\ refiltered = NoResult
    /\ ParseInit

Refilter ==
    /\ pc = "cleaned"
    /\ refiltered' = clean_and_filter(df)
    /\ pc' = "refiltered"
    /\ UNCHANGED <<runs, cache, lastFetched, fetch, source, raw, df, binding,
                   has_coordinates, error, today, fuel_today, fuel_pending,
                   data_json>>
    /\ UNCHANGED parseVars

NextFilter == CleanAndFilter \/ Refilter

SpecFilter == InitFilter /\ [][NextFilter]_vars

----------------------------------------------------------------------------
(* safe_parse_date applied to formatted dates and to raw cell values       *)

InitParse ==
    /\ cache = CacheAbsent
    /\ PipeStart
    /\ ParseInit

NextParse == FormatDate \/ RawInput \/ ParseDate

SpecParse == InitParse /\ [][NextParse]_vars

----------------------------------------------------------------------------
(* Properties of load_data (checked under SpecLoad)                        *)

Loaded == pc \in {"loaded", "load_failed"}

\* C1: load_data returns the remote table when the fetch succeeds and the
\* cached table when the fetch fails, and it is fatal if and only if the
\* fetch fails and no cache file exists.
C1_FatalOnlyWithoutRemoteAndCache ==
    Loaded =>
        /\ (pc = "load_failed") <=> (~fetch.ok /\ ~cache.exists)
        /\ fetch.ok => df = fetch.table
        /\ (~fetch.ok /\ cache.exists) => df = cache.table

\* C8: a successful fetch is written to the cache path before load_data
\* returns, so a later run whose fetch fails reads the table of the most
\* recent successful fetch.
C8_CacheHoldsLastFetch ==
    /\ (pc = "loaded" /\ fetch.ok) => cache = CacheFile(fetch.table)
    /\ (pc = "loaded" /\ source = "cache" /\ lastFetched.ok)
          => df = lastFetched.table

----------------------------------------------------------------------------
(* Properties of column resolution and of the row filter                   *)

Resolved == pc \in {"cleaned", "clean_failed", "reported", "done",
                    "dashboard_failed", "refiltered"}

\* A header as the resolver is said to compare it: trimmed, lower-cased,
\* with spaces, hyphens and underscores removed.
Normalized(h) == Remove(Remove(Remove(Lower(Strip(h)), " "), "-"), "_")

Matching(role) ==
    {i \in 1..Len(raw.columns) : Normalized(raw.columns[i]) \in Candidates(role)}

FirstOf(I) == CHOOSE i \in I : \A j \in I : i <= j

Unique(r) == binding[r] # NoColumn /\ Cardinality(Matching(r)) = 1

Unknown == <<"U","n","k","n","o","w","n">>

\* C2: a header row without a Site, RegionOrCity or FuelDate header does not
\* make clean_and_filter raise: a missing Site or RegionOrCity gives records
\* carrying "Unknown", a missing FuelDate gives the empty record set.
C2_MissingRoleYieldsDefault ==
    ( /\ pc \in {"cleaned", "clean_failed"}
      /\ Unique("status")
      /\ \A r \in {"site", "region", "date"} : Cardinality(Matching(r)) <= 1
      /\ \E r \in {"site", "region", "date"} : binding[r] = NoColumn )
    =>
        /\ pc = "cleaned"
        /\ binding.site = NoColumn =>
              \A i \in 1..Len(df.rows) : df.rows[i][1] = Str(Unknown)
        /\ binding.region = NoColumn =>
              \A i \in 1..Len(df.rows) : df.rows[i][2] = Str(Unknown)
        /\ binding.date = NoColumn => df.rows = <<>>

RawCell(r, role) == r[FirstOf(Matching(role))]

\* The row filter as stated: the date is always required, the region and
\* the status only when their column is resolved.
StatedKeep(r) ==
    /\ ~IsNA(ToDatetime(RawCell(r, "date")))
    /\ binding.region # NoColumn =>
          Lower(Strip(AsStr(RawCell(r, "region")))) = central
    /\ binding.status # NoColumn =>
          Upper(Strip(AsStr(RawCell(r, "status")))) \in allowed_status

\* C3: the row filter keeps a record iff its date is valid, its region is
\* "central" when a region column is resolved, and its status is allowed
\* when a status column is resolved; an unresolved region or status column
\* skips that condition and is no error.
C3_FilterSkipsUnresolvedColumns ==
    ( /\ pc \in {"cleaned", "clean_failed"}
      /\ Unique("site")
      /\ Unique("date")
      /\ \A r \in Roles : Cardinality(Matching(r)) <= 1 )
    =>
        /\ pc = "cleaned"
        /\ LET stated == SelectSeq(raw.rows, StatedKeep)
           IN  /\ Len(df.rows) = Len(stated)
               /\ \A i \in 1..Len(stated) :
                     /\ df.rows[i][1] = Str(Strip(AsStr(RawCell(stated[i], "site"))))
                     /\ df.rows[i][4] = ToDatetime(RawCell(stated[i], "date"))

\* C6: clean_and_filter applied to its own result returns the same records
\* and does not raise.
C6_FilterIdempotent ==
    pc = "refiltered" =>
        /\ refiltered.raised = NoError
        /\ refiltered.df = df
        /\ refiltered.has_coordinates = has_coordinates

C6_Witness ==
    /\ pc = "refiltered"
    /\ refiltered.raised = NoError
    /\ Len(df.rows) >= 1
    /\ Len(raw.rows) > Len(df.rows)
    /\ has_coordinates

----------------------------------------------------------------------------
(* Properties of the emitters                                              *)

Reported == pc \in {"reported", "done", "dashboard_failed"}

Plan(i) == df.rows[i][4]

DueToday == {i \in 1..Len(df.rows) : Plan(i).d = today}

Overdue == {i \in 1..Len(df.rows) : DateLT(Plan(i).d, today)}

Future == {i \in 1..Len(df.rows) : DateLT(today, Plan(i).d)}

\* The rows of df at the positions I, in row order
RowsAt(I) ==
    [k \in 1..Cardinality(I) |->
        df.rows[CHOOSE i \in I : Cardinality({j \in I : j <= i}) = k]]

InFile(f, r) == \E k \in 1..Len(f.rows) : f.rows[k] = r

Located(i) ==
    /\ has_coordinates
    /\ ~IsNA(df.rows[i][5])
    /\ ~IsNA(df.rows[i][6])

\* The dashboard records as stated: SiteName, CityName, NextFuelingPlan,
\* lat, lng of every filtered record that has both coordinates.
StatedFeed ==
    LET I == {i \in 1..Len(df.rows) : Located(i)}
        rec(r) == <<r[1], r[2], Str(Strftime(r[4].d, formats[1])), r[5], r[6]>>
    IN  [k \in 1..Cardinality(I) |-> rec(RowsAt(I)[k])]

\* C4: data.json holds exactly the filtered records that have both
\* coordinates; a record without them, or a feed without coordinate
\* headers, is left out of data.json, stays in the tabular reports, and
\* the run does not fail.
C4_DashboardFeedIsLocatedRecords ==
    pc \in {"done", "dashboard_failed"} =>
        /\ pc = "done"
        /\ has_coordinates => data_json = File(StatedFeed)
        /\ ~has_coordinates => data_json.rows = <<>>
        /\ \A i \in DueToday : InFile(fuel_today, df.rows[i])
        /\ \A i \in Overdue : InFile(fuel_pending, df.rows[i])

----------------------------------------------------------------------------
(* Properties of safe_parse_date (checked under SpecParse)                 *)

Parsed == ppc = "parsed"

ParsesUnder(s) == {i \in 1..Len(formats) : Strptime(s, formats[i]) # NoDate}

Rejected(v) ==
    \/ v.k # "str"
    \/ Strip(v.s) = <<>>
    \/ v.s \in Sentinels
    \/ ParsesUnder(Strip(v.s)) = {}

\* C9: safe_parse_date never raises; it returns None for a non-string, an
\* empty or whitespace-only string, a spreadsheet error sentinel and a
\* string no pattern matches, and a date only when the trimmed string
\* parses under some pattern.
C9_ParseTotal ==
    Parsed =>
        /\ ~pout.raised
        /\ Rejected(pin) => pout.date = None
        /\ pout.date # None =>
              /\ pin.k = "str"
              /\ \E i \in ParsesUnder(Strip(pin.s)) :
                    pout.date = Strptime(Strip(pin.s), formats[i])

C9_Witness ==
    /\ Parsed
    /\ pin = Str(<<"#","N","/","A">>)
    /\ pout = Returned(None)

\* C7 as stated: parsing a date formatted with any of the patterns returns
\* that date.
C7_RoundTripEveryPattern ==
    (Parsed /\ pfmt # 0) => pout = Returned(pdate)

PivotYear(y) == IF y % 100 >= 69 THEN 1900 + (y % 100) ELSE 2000 + (y % 100)

\* C7 as amended: the round trip returns the date for every pattern, except
\* that a %m/%d/%Y string whose day is at most 12 is read day-first (day and
\* month exchanged), and a %d/%m/%y string is read in the year of 1969..2068
\* that ends in its two digits.
C7_RoundTripUpToTieBreak ==
    (Parsed /\ pfmt # 0) =>
        pout = Returned(
            IF pfmt = 4 /\ pdate[3] <= 12 THEN <<pdate[1], pdate[3], pdate[2]>>
            ELSE IF pfmt = 5 THEN <<PivotYear(pdate[1]), pdate[2], pdate[3]>>
            ELSE pdate)

C7_Witness ==
    /\ Parsed
    /\ pfmt = 4
    /\ pdate[3] > 12
    /\ pout = Returned(pdate)

====
